---------------------------- MODULE Spec2Model ----------------------------
(***************************************************************************)
(* A model of the code generator of juniper-from-schema                    *)
(* (src/src/walk_ast/gen_juniper_code.rs): the literal compiler            *)
(* quote_value, the annotation parser parse_attributes, the per-field and  *)
(* per-argument compilation, and the pass gen_juniper_code over the        *)
(* definitions of a document.                                              *)
(*                                                                         *)
(* A panic!/expect of the code is a value [tok |-> "panic", msg |-> m]     *)
(* that every caller propagates unchanged, as unwinding does.              *)
(***************************************************************************)
EXTENDS Integers, Sequences, FiniteSets, TLC

VARIABLES
    value,      \* quote_value: the graphql Value given
    quoted,     \* quote_value: the TokenStream returned, a panic, or Pending
    desc,       \* parse_attributes: the description text, a sequence of tokens
    attrs,      \* parse_attributes: the Attributes returned, a panic, or Pending
    arg,        \* argument_to_name_and_rust_type: the InputValue given
    fieldArg,   \* argument_to_name_and_rust_type: the FieldArgument returned, a panic, or Pending
    field,      \* collect_data_for_field_gen: the Field given
    fieldTokens,\* collect_data_for_field_gen: the FieldTokens returned, a panic, or Pending
    doc,        \* gen_juniper_code: the Document, a sequence of definitions
    registry,   \* Output::interface_implementors: interface name -> implementor names
    pc,         \* gen_juniper_code: "start", "gen_doc", "done" or "panicked"
    pos,        \* gen_doc: the index in doc of the definition compiled next
    out,        \* Output: the token streams appended so far, in order
    origin,     \* history: origin[i] is the index of the definition that appended out[i]
    errors,     \* the panics raised
    returned    \* what the caller of gen_juniper_code gets back: None until it returns

unitVars == <<value, quoted, desc, attrs, arg, fieldArg, field, fieldTokens>>
passVars == <<doc, registry, pc, pos, out, origin, errors, returned>>
vars == <<unitVars, passVars>>

--------------------------------------------------------------------------
(* Bounds of the model.                                                    *)

\* longest list default value
MaxListLen == 3
\* longest list nested inside a list default value
MaxInnerLen == 1
\* most lines of a description
MaxLines == 3
\* most arguments of a field
MaxArgs == 2
\* most definitions of a document
MaxDefs == 3

--------------------------------------------------------------------------
(* Common values.                                                          *)

Pending == [tok |-> "pending"]
Idle == [tok |-> "idle"]

Panic(m) == [tok |-> "panic", msg |-> m]
IsPanic(r) == r.tok = "panic"

None == [some |-> FALSE]
Some(x) == [some |-> TRUE, v |-> x]

\* Every sequence over S of length at most n.
SeqsUpTo(n, S) == UNION {[1..k -> S] : k \in 0..n}

Min(S) == CHOOSE x \in S : \A y \in S : x <= y

\* Whether some result of rs is a panic, and the first one that is: the
\* panic that unwinds out of a loop or an iterator over rs.
AnyPanic(rs) == \E k \in 1..Len(rs) : IsPanic(rs[k])
FirstPanic(rs) == rs[Min({k \in 1..Len(rs) : IsPanic(rs[k])})]

\* The pass is not running.
PassIdle ==
    /\ doc = <<>>
    /\ registry = <<>>
    /\ pc = "idle"
    /\ pos = 0
    /\ out = <<>>
    /\ origin = <<>>
    /\ errors = <<>>
    /\ returned = None


--------------------------------------------------------------------------
(* 64-bit and 32-bit integers.  An i64 is held as two limbs,               *)
(* i = hi * 2^16 + lo with 0 <= lo < 2^16, so that values around 2^31 and  *)
(* -2^31 are computed exactly; an i32 is a TLC integer.                    *)

I64(h, l) == [hi |-> h, lo |-> l]

\* std::i32::MAX as i64 = 2^31 - 1 = 32767 * 2^16 + 65535
I32_MAX == I64(32767, 65535)

\* a > b on i64
I64Gt(a, b) == a.hi > b.hi \/ (a.hi = b.hi /\ a.lo > b.lo)

\* `i as i32`: the low 32 bits of i, read as two's complement
AsI32(i) ==
    LET h == i.hi % (2^16)
        s == IF h >= 2^15 THEN h - 2^16 ELSE h
    IN  s * (2^16) + i.lo

I32FromI64(i) == IF I64Gt(i, I32_MAX) THEN None ELSE Some(AsI32(i))

--------------------------------------------------------------------------
(* graphql_parser::query::Value                                            *)

VInt(h, l)   == [kind |-> "Int", i |-> I64(h, l)]
VFloat(f)    == [kind |-> "Float", s |-> f]
VString(s)   == [kind |-> "String", s |-> s]
VBoolean(b)  == [kind |-> "Boolean", b |-> b]
VEnum(n)     == [kind |-> "Enum", s |-> n]
VList(l)     == [kind |-> "List", items |-> l]
VObject      == [kind |-> "Object"]
VVariable(n) == [kind |-> "Variable", s |-> n]
VNull        == [kind |-> "Null"]

--------------------------------------------------------------------------
(* quote_value                                                             *)

MsgInt == "failed to convert default number argument to i64"
MsgObject == "Default arguments where the type is an object is currently not supported."
MsgVariable == "Default arguments cannot refer to variables."
MsgNull == "Having a default argument value of null is not supported. Use a nullable type instead."

StmtNew == [stmt |-> "let mut vec = Vec::new();"]
StmtPush(q) == [stmt |-> "vec.push", arg |-> q]
StmtVec == [stmt |-> "vec"]

\* Option::expect on the result of i32_from_i64, and the literal quoted
QuoteNumber(number) ==
    IF number.some THEN [tok |-> "i32", n |-> number.v] ELSE Panic(MsgInt)

QuoteInt(i) == QuoteNumber(I32FromI64(i))

\* The block of a list whose elements compiled to qs, none of them a panic.
QuoteListReversed(qs) ==
    [tok |-> "block",
     stmts |-> <<StmtNew>> \o [k \in 1..Len(qs) |-> StmtPush(qs[Len(qs) + 1 - k])] \o <<StmtVec>>]

QuoteList(qs) ==
    [tok |-> "block",
     stmts |-> <<StmtNew>> \o [k \in 1..Len(qs) |-> StmtPush(qs[k])] \o <<StmtVec>>]

\* The loop over the elements of a list: the first element that panics ends
\* it, otherwise the block of all of them.
QuoteItems(qs) == IF AnyPanic(qs) THEN FirstPanic(qs) ELSE QuoteList(qs)

\* The panics of the three unsupported kinds.
QuoteUnsupportedNullAllowed(v) ==
    CASE v.kind = "Object"   -> Panic(MsgObject)
      [] v.kind = "Variable" -> Panic(MsgVariable)
      [] v.kind = "Null"     -> [tok |-> "None"]

QuoteUnsupported(v) ==
    CASE v.kind = "Object"   -> Panic(MsgObject)
      [] v.kind = "Variable" -> Panic(MsgVariable)
      [] v.kind = "Null"     -> Panic(MsgNull)

RECURSIVE QuoteValue(_)
QuoteValue(v) ==
    CASE v.kind = "Float"   -> [tok |-> "f64", s |-> v.s]
      [] v.kind = "Int"     -> QuoteInt(v.i)
      [] v.kind = "String"  -> [tok |-> "to_string", s |-> v.s]
      [] v.kind = "Boolean" -> [tok |-> "bool", b |-> v.b]
      [] v.kind = "Enum"    -> [tok |-> "EnumFromGraphQlName::from_name", s |-> v.s]
      [] v.kind = "List"    ->
            QuoteItems([k \in 1..Len(v.items) |-> QuoteValue(v.items[k])])
      [] OTHER              -> QuoteUnsupported(v)

--------------------------------------------------------------------------
(* The default values the model draws from.                                *)

IntSamples ==
    {VInt(h, l) : h \in {-32770, -32769, -32768, -1, 0, 32767, 32768, 65536},
                  l \in {0, 1, 65535}}

SmallInts == {VInt(0, 1), VInt(0, 2), VInt(0, 3)}

Leaves ==
    IntSamples \cup SmallInts \cup
    {VFloat("1.5"), VString("hello"), VBoolean(TRUE), VEnum("PUBLISHED"),
     VObject, VVariable("x"), VNull}

InnerLists == {VList(l) : l \in SeqsUpTo(MaxInnerLen, {VInt(0, 1), VNull})}

Elems ==
    SmallInts \cup InnerLists \cup
    {VEnum("PUBLISHED"), VObject, VVariable("x"), VNull, VInt(32768, 0)}

Lists == {VList(l) : l \in SeqsUpTo(MaxListLen, Elems)}

Values == Leaves \cup Lists

--------------------------------------------------------------------------
(* The literal compiler on one default value.                              *)

InitValue ==
    /\ PassIdle
    /\ value \in Values
    /\ quoted = Pending
    /\ desc = None
    /\ attrs = Idle
    /\ arg = Idle
    /\ fieldArg = Idle
    /\ field = Idle
    /\ fieldTokens = Idle

QuoteValueStep ==
    /\ quoted = Pending
    /\ quoted' = QuoteValue(value)
    /\ UNCHANGED <<value, desc, attrs, arg, fieldArg, field, fieldTokens, passVars>>

NextValue == QuoteValueStep

SpecValue == InitValue /\ [][NextValue]_vars

--------------------------------------------------------------------------
(* Description text.  A text is a sequence of tokens: a token is one of    *)
(* the characters # [ ] ( ) -, a run of whitespace " ", a line break, or   *)
(* a maximal run of word characters (any other token).                     *)

NL == "\n"
NonWord == {"#", "[", "]", "(", ")", "-", " ", NL}

\* \w+ matches exactly one whole word token
IsWord(t) == t \notin NonWord

\* str::lines: the text between line breaks; a final line break ends the
\* last line and starts no new one.
RECURSIVE Lines(_)
Lines(d) ==
    IF d = <<>> THEN <<>>
    ELSE LET nl == {k \in 1..Len(d) : d[k] = NL}
         IN  IF nl = {} THEN <<d>>
             ELSE <<SubSeq(d, 1, Min(nl) - 1)>> \o Lines(SubSeq(d, Min(nl) + 1, Len(d)))

--------------------------------------------------------------------------
(* ATTRIBUTE_PATTERN, parse_attributes_line, parse_attributes, ownership   *)

\* The pattern #\[(\w+)\((\w+)\)\] matches the tokens of line from k on.  Its
\* leading \s* matches the empty string too, so it constrains nothing.
MatchAt(line, k) ==
    /\ k + 6 <= Len(line)
    /\ line[k] = "#"
    /\ line[k + 1] = "["
    /\ IsWord(line[k + 2])
    /\ line[k + 3] = "("
    /\ IsWord(line[k + 4])
    /\ line[k + 5] = ")"
    /\ line[k + 6] = "]"

\* The groups key and value of the leftmost of the matches at ms
CapturesAt(line, ms) ==
    IF ms = {} THEN None
    ELSE Some([key |-> line[Min(ms) + 2], value |-> line[Min(ms) + 4]])

\* Regex::captures: the leftmost match anywhere in the line
Captures(line) == CapturesAt(line, {k \in 1..Len(line) : MatchAt(line, k)})

NoAttribute == [tok |-> "None"]
AttrOwnership(x) == [tok |-> "Ownership", ownership |-> x]
PanicValue(v, k) == [tok |-> "panic", msg |-> "Unsupported attribute value for key", value |-> v, key |-> k]
PanicKey(k) == [tok |-> "panic", msg |-> "Unsupported attribute key", key |-> k]

\* parse_attributes_line on the captures of the line
AttributeOf(caps) ==
    IF ~caps.some THEN NoAttribute
    ELSE IF caps.v.key = "ownership"
         THEN CASE caps.v.value = "borrowed" -> AttrOwnership("Borrowed")
                [] caps.v.value = "owned"    -> AttrOwnership("Owned")
                [] OTHER -> PanicValue(caps.v.value, caps.v.key)
         ELSE PanicKey(caps.v.key)

parse_attributes_line(line) == AttributeOf(Captures(line))

\* filter_map: the attributes among the results of the lines, in order
RECURSIVE FilterAttrs(_)
FilterAttrs(s) ==
    IF s = <<>> THEN <<>>
    ELSE IF Head(s).tok = "Ownership"
         THEN <<Head(s)>> \o FilterAttrs(Tail(s))
         ELSE FilterAttrs(Tail(s))

Attributes(l) == [tok |-> "Attributes", list |-> l]

AttributesDefault == Attributes(<<>>)

\* parse_attributes_line on every line, in order
ParseLines(ls) == [k \in 1..Len(ls) |-> parse_attributes_line(ls[k])]

\* collect: the first line that panics ends it
CollectAttributes(rs) == IF AnyPanic(rs) THEN FirstPanic(rs) ELSE Attributes(FilterAttrs(rs))

parse_attributes(d) == CollectAttributes(ParseLines(Lines(d)))

\* Attributes::ownership returning the last attribute of the list
ownership_last(a) ==
    IF a.list = <<>> THEN "Borrowed" ELSE a.list[Len(a.list)].ownership

\* Attributes::ownership
ownership(a) ==
    IF a.list = <<>> THEN "Borrowed" ELSE a.list[1].ownership

\* collect_data_for_field_gen: the attributes of a field description
FieldAttributes(description) ==
    IF description.some THEN parse_attributes(description.v) ELSE AttributesDefault

--------------------------------------------------------------------------
(* The descriptions the model draws from.                                  *)

Directive(k, v) == <<"#", "[", k, "(", v, ")", "]">>

LineSamples ==
    { <<>>,
      <<"Comment">>,
      <<" ">> \o Directive("ownership", "owned"),
      Directive("ownership", "borrowed") \o <<" ">>,
      Directive("ownership", "bogus"),
      <<" ">> \o Directive("deprecated", "owned"),
      <<"see", " ">> \o Directive("ownership", "owned") \o <<" ", "here">>,
      <<"see", " ">> \o Directive("deprecated", "x"),
      <<"#", "[", "ownership", "(", ")", "]">>,
      <<"#", "[", "owner", "-", "ship", "(", "owned", ")", "]">> }

\* The lines joined by line breaks, the last one ended by a line break if nl.
RECURSIVE JoinLines(_, _)
JoinLines(ls, nl) ==
    IF ls = <<>> THEN <<>>
    ELSE IF Len(ls) = 1 THEN (IF nl THEN Head(ls) \o <<NL>> ELSE Head(ls))
    ELSE Head(ls) \o <<NL>> \o JoinLines(Tail(ls), nl)

Descriptions ==
    {None} \cup
    {Some(JoinLines(ls, nl)) : ls \in SeqsUpTo(MaxLines, LineSamples), nl \in BOOLEAN}

--------------------------------------------------------------------------
(* The annotation parser on the description of one field.                  *)

InitAttr ==
    /\ PassIdle
    /\ desc \in Descriptions
    /\ attrs = Pending
    /\ value = VNull
    /\ quoted = Idle
    /\ arg = Idle
    /\ fieldArg = Idle
    /\ field = Idle
    /\ fieldTokens = Idle

FieldAttributesStep ==
    /\ attrs = Pending
    /\ attrs' = FieldAttributes(desc)
    /\ UNCHANGED <<value, quoted, desc, arg, fieldArg, field, fieldTokens, passVars>>

NextAttr == FieldAttributesStep

SpecAttr == InitAttr /\ [][NextAttr]_vars

--------------------------------------------------------------------------
(* graphql_parser::query::Type and crate::nullable_type::NullableType      *)

TNamed(n)   == [t |-> "NamedType", name |-> n]
TList(of)   == [t |-> "ListType", of |-> of]
TNonNull(of) == [t |-> "NonNullType", of |-> of]

NNamed(n)     == [nt |-> "NamedType", name |-> n]
NList(of)     == [nt |-> "ListType", of |-> of]
NNullable(of) == [nt |-> "NullableType", of |-> of]

\* NullableType::from_schema_type: a type is nullable unless marked non-null.
RECURSIVE FromSchemaType(_)
RECURSIVE FromSchemaTypeNonNull(_)
FromSchemaTypeNonNull(ty) ==
    CASE ty.t = "NamedType"   -> NNamed(ty.name)
      [] ty.t = "ListType"    -> NList(FromSchemaType(ty.of))
      [] ty.t = "NonNullType" -> FromSchemaTypeNonNull(ty.of)

FromSchemaType(ty) ==
    IF ty.t = "NonNullType"
    THEN FromSchemaTypeNonNull(ty.of)
    ELSE NNullable(FromSchemaTypeNonNull(ty))

is_nullable(nty) == nty.nt = "NullableType"

remove_one_layer_of_nullability(nty) ==
    IF nty.nt = "NullableType" THEN nty.of ELSE nty

\* super::type_name: the innermost named type
RECURSIVE type_name(_)
type_name(ty) == IF ty.t = "NamedType" THEN ty.name ELSE type_name(ty.of)

--------------------------------------------------------------------------
(* Names.  A case conversion is kept as a tag on the schema name.          *)

to_snake_case(n) == [snake |-> n]
to_camel_case(n) == [camel |-> n]
FieldMethod(n) == [field_ |-> to_snake_case(n)]

--------------------------------------------------------------------------
(* super::graphql_scalar_type_to_rust_type                                 *)

Path(n) == [ty |-> "path", name |-> n]

\* the custom scalars and the enums the schema declares
DeclaredScalars == {"Url", "Status"}

graphql_scalar_type_to_rust_type(name) ==
    CASE name = "String"   -> [tokens |-> Path("String"), kind |-> "Scalar"]
      [] name = "Float"    -> [tokens |-> Path("f64"), kind |-> "Scalar"]
      [] name = "Int"      -> [tokens |-> Path("i32"), kind |-> "Scalar"]
      [] name = "Boolean"  -> [tokens |-> Path("bool"), kind |-> "Scalar"]
      [] name = "ID"       -> [tokens |-> Path("juniper::ID"), kind |-> "Scalar"]
      [] name = "Date"     -> [tokens |-> Path("chrono::naive::NaiveDate"), kind |-> "Scalar"]
      [] name = "DateTime" -> [tokens |-> Path("chrono::DateTime<chrono::offset::Utc>"), kind |-> "Scalar"]
      [] OTHER ->
            IF name \in DeclaredScalars
            THEN [tokens |-> Path(name), kind |-> "Scalar"]
            ELSE [tokens |-> Path(name), kind |-> "Type"]

--------------------------------------------------------------------------
(* gen_nullable_field_type and gen_field_type                              *)

\* Vec<item> and Option<item>, of the kind of the item
Wrapped(w, item) == [tokens |-> [ty |-> w, of |-> item.tokens], kind |-> item.kind]

RECURSIVE gen_nullable_field_type(_)
gen_nullable_field_type(nty) ==
    CASE nty.nt = "NamedType"    -> graphql_scalar_type_to_rust_type(nty.name)
      [] nty.nt = "ListType"     -> Wrapped("Vec", gen_nullable_field_type(nty.of))
      [] nty.nt = "NullableType" -> Wrapped("Option", gen_nullable_field_type(nty.of))

MsgMustBeNullable == "Fields with default arguments values must be nullable"

DestArgument == [dest |-> "Argument"]
DestReturn(own) == [dest |-> "Return", ownership |-> own]

\* gen_field_type: the match on the destination
Destined(r, destination) ==
    IF destination.dest = "Return" /\ destination.ownership = "Borrowed"
    THEN [tok |-> "type", tokens |-> [ty |-> "&", of |-> r.tokens], kind |-> r.kind]
    ELSE [tok |-> "type", tokens |-> r.tokens, kind |-> r.kind]

\* gen_field_type on the normalized type, never removing the layer of
\* nullability of a default
NormalizedFieldTypeKeepsLayer(nty, destination, has_default_value) ==
    IF has_default_value /\ ~is_nullable(nty)
    THEN Panic(MsgMustBeNullable)
    ELSE Destined(gen_nullable_field_type(nty), destination)

\* gen_field_type on the normalized type, without the test that a type with
\* a default is nullable
NormalizedFieldTypeAllowsNonNull(nty, destination, has_default_value) ==
    Destined(gen_nullable_field_type(IF has_default_value
                                     THEN remove_one_layer_of_nullability(nty)
                                     ELSE nty),
             destination)

\* gen_field_type on the normalized type
NormalizedFieldType(nty, destination, has_default_value) ==
    IF has_default_value /\ ~is_nullable(nty)
    THEN Panic(MsgMustBeNullable)
    ELSE Destined(gen_nullable_field_type(IF has_default_value
                                          THEN remove_one_layer_of_nullability(nty)
                                          ELSE nty),
                  destination)

gen_field_type_keeps_layer(field_type, destination, has_default_value) ==
    NormalizedFieldTypeKeepsLayer(FromSchemaType(field_type), destination, has_default_value)

gen_field_type(field_type, destination, has_default_value) ==
    NormalizedFieldType(FromSchemaType(field_type), destination, has_default_value)

--------------------------------------------------------------------------
(* directives::panic_if_has_directives                                     *)

MsgDirectives == "Directives are not supported"

HasDirectives(x) == x.directives

--------------------------------------------------------------------------
(* argument_to_name_and_rust_type                                          *)

InputValue(n, ty, dflt, dsc, dirs) ==
    [name |-> n, value_type |-> ty, default_value |-> dflt,
     description |-> dsc, directives |-> dirs]

FieldArgument(n, mt, tt, dflt, dsc) ==
    [tok |-> "FieldArgument", name |-> n, macro_type |-> mt, trait_type |-> tt,
     default_value |-> dflt, description |-> dsc]

\* argument_to_name_and_rust_type once both types are generated
ArgumentOfTypes(a, default_value, macro_type, trait_type) ==
    IF IsPanic(macro_type) THEN macro_type
    ELSE IF IsPanic(trait_type) THEN trait_type
    ELSE FieldArgument(to_snake_case(a.name), macro_type.tokens, trait_type.tokens,
                       default_value, a.description)

\* argument_to_name_and_rust_type once the default value is quoted
ArgumentOfDefault(a, default_value) ==
    IF default_value.some /\ IsPanic(default_value.v) THEN default_value.v
    ELSE ArgumentOfTypes(a, default_value,
                         gen_field_type(a.value_type, DestArgument, FALSE),
                         gen_field_type(a.value_type, DestArgument, default_value.some))

argument_to_name_and_rust_type(a) ==
    IF HasDirectives(a) THEN Panic(MsgDirectives)
    ELSE ArgumentOfDefault(a, IF a.default_value.some
                              THEN Some(QuoteValue(a.default_value.v))
                              ELSE None)

--------------------------------------------------------------------------
(* One argument through argument_to_name_and_rust_type.                    *)

ArgTypes ==
    {TNamed("Status"), TNonNull(TNamed("Status")),
     TList(TNonNull(TNamed("Int"))), TNonNull(TList(TNamed("Int"))),
     TList(TNamed("Int"))}

NoDescription == None

InitArg ==
    /\ PassIdle
    /\ arg \in {InputValue("status", ty, dflt, NoDescription, dirs) :
                    ty \in ArgTypes,
                    dflt \in {None} \cup {Some(v) : v \in Values},
                    dirs \in BOOLEAN}
    /\ fieldArg = Pending
    /\ value = VNull
    /\ quoted = Idle
    /\ desc = None
    /\ attrs = Idle
    /\ field = Idle
    /\ fieldTokens = Idle

ArgumentStep ==
    /\ fieldArg = Pending
    /\ fieldArg' = argument_to_name_and_rust_type(arg)
    /\ UNCHANGED <<value, quoted, desc, attrs, arg, field, fieldTokens, passVars>>

NextArg == ArgumentStep

SpecArg == InitArg /\ [][NextArg]_vars

--------------------------------------------------------------------------
(* collect_data_for_field_gen                                              *)

Field(n, dsc, ty, args, dirs) ==
    [name |-> n, description |-> dsc, field_type |-> ty, arguments |-> args,
     directives |-> dirs]

MacroArg(a) == [name |-> a.name, type |-> a.macro_type, description |-> a.description]
TraitArg(a) == [name |-> a.name, type |-> a.trait_type]

Param(a) ==
    IF a.default_value.some
    THEN [param |-> "unwrap_or_else", name |-> a.name, default |-> a.default_value.v]
    ELSE [param |-> "name", name |-> a.name]

\* argument_to_name_and_rust_type on every argument, in order
ArgsData(arguments) ==
    [k \in 1..Len(arguments) |-> argument_to_name_and_rust_type(arguments[k])]

\* collect_data_for_field_gen once the type and the arguments are generated
FieldTokensOf(f, ty, args_data) ==
    IF AnyPanic(args_data) THEN FirstPanic(args_data)
    ELSE [tok |-> "FieldTokens",
          name |-> f.name,
          macro_args |-> [k \in 1..Len(args_data) |-> MacroArg(args_data[k])],
          trait_args |-> [k \in 1..Len(args_data) |-> TraitArg(args_data[k])],
          field_type |-> ty.tokens,
          field_method |-> FieldMethod(f.name),
          params |-> [k \in 1..Len(args_data) |-> Param(args_data[k])],
          description |-> f.description,
          type_kind |-> ty.kind,
          inner_type |-> to_camel_case(type_name(f.field_type))]

\* collect_data_for_field_gen once the attributes are parsed
FieldOfAttributes(f, attributes) ==
    IF IsPanic(attributes) THEN attributes
    ELSE FieldTokensOf(f,
                       gen_field_type(f.field_type, DestReturn(ownership(attributes)), FALSE),
                       ArgsData(f.arguments))

collect_data_for_field_gen(f) ==
    IF HasDirectives(f) THEN Panic(MsgDirectives)
    ELSE FieldOfAttributes(f, FieldAttributes(f.description))

--------------------------------------------------------------------------
(* One field through collect_data_for_field_gen.                           *)

FieldTypes ==
    {TNonNull(TList(TNonNull(TNamed("Post")))), TNamed("String"),
     TNonNull(TNamed("ID")), TList(TNamed("Status"))}

FieldDescriptions ==
    {None, Some(Directive("ownership", "owned")), Some(<<"Comment">>),
     Some(Directive("ownership", "bogus"))}

FieldArgTypes == {TNamed("Status"), TNonNull(TNamed("Status")), TList(TNonNull(TNamed("Int")))}

FieldArgs ==
    {InputValue(n, ty, dflt, NoDescription, FALSE) :
        n \in {"status", "firstN"},
        ty \in FieldArgTypes,
        dflt \in {None, Some(VEnum("PUBLISHED")), Some(VNull)}}
    \cup {InputValue("status", TNamed("Status"), None, NoDescription, TRUE)}

InitField ==
    /\ PassIdle
    /\ field \in {Field("allPosts", dsc, ty, args, dirs) :
                      dsc \in FieldDescriptions,
                      ty \in FieldTypes,
                      args \in SeqsUpTo(MaxArgs, FieldArgs),
                      dirs \in BOOLEAN}
    /\ fieldTokens = Pending
    /\ value = VNull
    /\ quoted = Idle
    /\ desc = None
    /\ attrs = Idle
    /\ arg = Idle
    /\ fieldArg = Idle

FieldStep ==
    /\ fieldTokens = Pending
    /\ fieldTokens' = collect_data_for_field_gen(field)
    /\ UNCHANGED <<value, quoted, desc, attrs, arg, fieldArg, field, passVars>>

NextField == FieldStep

SpecField == InitField /\ [][NextField]_vars

--------------------------------------------------------------------------
(* The definition compiler.  A generator returns the token streams it      *)
(* appended to the Output, in order, and the panic that ended it, if any.  *)

Done(decls) == [decls |-> decls, err |-> None]
Abort(decls, p) == [decls |-> decls, err |-> Some(p)]

Ident(n) == [ident |-> n]

\* not_supported!
NotSupported(what) == [tok |-> "panic", msg |-> "not supported", what |-> what]

MsgNoQuery == "Juniper requires that the schema type has a query"
NoImplementors(n) == [tok |-> "panic", msg |-> "There are no implementors of", name |-> n]

\* The concatenation of the sequences of ss, in order.
RECURSIVE Flatten(_)
Flatten(ss) == IF ss = <<>> THEN <<>> ELSE Head(ss) \o Flatten(Tail(ss))

Reverse(q) == [k \in 1..Len(q) |-> q[Len(q) + 1 - k]]

\* gen_enum_from_name
TraitEnumFromGraphQlName == [decl |-> "trait EnumFromGraphQlName"]

\* gen_def on a directive definition and on a type extension, when they are
\* skipped instead of refused
gen_unsupported_skipped(what) == Done(<<>>)

\* gen_def on a directive definition and on a type extension
gen_unsupported(what) == Abort(<<>>, NotSupported(what))

\* gen_schema_def that lets a subscription root through
gen_schema_def_subscription_allowed(d) ==
    IF HasDirectives(d) THEN Abort(<<>>, Panic(MsgDirectives))
    ELSE IF ~d.query.some THEN Abort(<<>>, Panic(MsgNoQuery))
    ELSE Done(<<[decl |-> "type Schema",
                 query |-> Ident(d.query.v),
                 mutation |-> IF d.mutation.some
                              THEN Ident(d.mutation.v)
                              ELSE Ident("juniper::EmptyMutation<Context>")]>>)

\* gen_schema_def
gen_schema_def(d) ==
    IF d.subscription.some THEN Abort(<<>>, NotSupported("Subscriptions"))
    ELSE IF HasDirectives(d) THEN Abort(<<>>, Panic(MsgDirectives))
    ELSE IF ~d.query.some THEN Abort(<<>>, Panic(MsgNoQuery))
    ELSE Done(<<[decl |-> "type Schema",
                 query |-> Ident(d.query.v),
                 mutation |-> IF d.mutation.some
                              THEN Ident(d.mutation.v)
                              ELSE Ident("juniper::EmptyMutation<Context>")]>>)

\* gen_input_def once the fields are converted
InputStruct(d, args) ==
    IF AnyPanic(args) THEN Abort(<<>>, FirstPanic(args))
    ELSE Done(<<[decl |-> "struct",
                 name |-> Ident(d.name),
                 description |-> d.description,
                 fields |-> [k \in 1..Len(args) |->
                               [name |-> args[k].name,
                                type |-> args[k].macro_type,
                                description |-> d.fields[k].description]]]>>)

\* gen_input_def
gen_input_def(d) ==
    IF HasDirectives(d) THEN Abort(<<>>, Panic(MsgDirectives))
    ELSE InputStruct(d, ArgsData(d.fields))

to_enum_name(n) == to_camel_case(n)

\* gen_enum_value: what it appends to the Output it is given
gen_enum_value(v) ==
    IF HasDirectives(v) THEN Abort(<<>>, Panic(MsgDirectives))
    ELSE Done(<<[graphql_name |-> v.name,
                 name |-> to_enum_name(v.name),
                 description |-> v.description]>>)

\* Whether some result of rs ended with a panic, and the first such panic
AnyAbort(rs) == \E k \in 1..Len(rs) : rs[k].err.some
FirstAbort(rs) == rs[Min({k \in 1..Len(rs) : rs[k].err.some})].err.v

\* gen_with on the results rs of f on each item, which collects them in the
\* reverse of the order of the items
gen_with_reversed(rs) ==
    IF AnyAbort(rs) THEN FirstAbort(rs)
    ELSE [tok |-> "tokens", items |-> Flatten(Reverse([k \in 1..Len(rs) |-> rs[k].decls]))]

\* gen_with on the results rs of f on each item: a fresh accumulator, f on
\* every item in order, and the tokens accumulated
gen_with(rs) ==
    IF AnyAbort(rs) THEN FirstAbort(rs)
    ELSE [tok |-> "tokens", items |-> Flatten([k \in 1..Len(rs) |-> rs[k].decls])]

\* gen_enum_type once the values are generated
EnumDecls(d, name, values) ==
    IF IsPanic(values) THEN Abort(<<>>, values)
    ELSE Done(<<[decl |-> "enum", name |-> name, values |-> values.items,
                 description |-> d.description],
                [decl |-> "impl EnumFromGraphQlName", name |-> name,
                 arms |-> [k \in 1..Len(d.values) |->
                             [graphql_name |-> d.values[k].name,
                              variant |-> to_enum_name(d.values[k].name)]]]>>)

\* gen_enum_type
gen_enum_type(d) ==
    IF HasDirectives(d) THEN Abort(<<>>, Panic(MsgDirectives))
    ELSE EnumDecls(d, to_enum_name(d.name),
                   gen_with([k \in 1..Len(d.values) |-> gen_enum_value(d.values[k])]))

\* gen_scalar_type and gen_scalar_type_with_data
gen_scalar_type(d) ==
    IF HasDirectives(d) THEN Abort(<<>>, Panic(MsgDirectives))
    ELSE IF d.name \in {"Date", "DateTime"} THEN Done(<<>>)
    ELSE Done(<<[decl |-> "scalar", name |-> Ident(d.name), description |-> d.description,
                 payload |-> "String",
                 conversions |-> <<"resolve", "from_input_value", "from_str">>,
                 constructor |-> "new"]>>)

trait_map_for_struct_name(n) == [Fields |-> n]

SelfParam == [p |-> "&self"]
ExecutorParam == [p |-> "executor"]
TrailParam(ty) == [p |-> "trail", query_trail_type |-> ty]

\* gen_obj_type: the trait method of a field
TraitMethod(ft) ==
    [method |-> ft.field_method,
     params |-> <<SelfParam, ExecutorParam>>
                \o (IF ft.type_kind = "Type" THEN <<TrailParam(Ident(ft.inner_type))>> ELSE <<>>)
                \o ft.trait_args,
     ret |-> ft.field_type]

\* gen_field_body that never makes nor passes a query trail
gen_field_body_no_trail(ft, self_tokens, struct_name, trait_name) ==
    [make_query_trail |-> None,
     struct |-> struct_name,
     trait |-> trait_name,
     method |-> ft.field_method,
     args |-> <<[p |-> self_tokens], [p |-> "&executor"]>> \o ft.params]

\* gen_field_body
gen_field_body(ft, self_tokens, struct_name, trait_name) ==
    [make_query_trail |-> IF ft.type_kind = "Type" THEN Some(Ident(ft.inner_type)) ELSE None,
     struct |-> struct_name,
     trait |-> trait_name,
     method |-> ft.field_method,
     args |-> <<[p |-> self_tokens], [p |-> "&executor"]>>
              \o (IF ft.type_kind = "Type" THEN <<[p |-> "&trail"]>> ELSE <<>>)
              \o ft.params]

\* to_field_args_list
to_field_args_list(args) == <<[p |-> "&executor"]>> \o args

\* gen_field
gen_field(ft, struct_name, trait_name) ==
    [field |-> ft.name,
     doc |-> IF ft.description.some THEN ft.description.v ELSE <<>>,
     args |-> to_field_args_list(ft.macro_args),
     type |-> ft.field_type,
     body |-> gen_field_body(ft, "&self", struct_name, trait_name)]

\* collect_data_for_field_gen on every field, in order
FieldsData(fields) == [k \in 1..Len(fields) |-> collect_data_for_field_gen(fields[k])]

\* gen_obj_type once the fields are collected
ObjDecls(d, struct_name, trait_name, field_tokens) ==
    IF AnyPanic(field_tokens) THEN Abort(<<>>, FirstPanic(field_tokens))
    ELSE Done(<<[decl |-> "trait", name |-> trait_name,
                 methods |-> [k \in 1..Len(field_tokens) |-> TraitMethod(field_tokens[k])]],
                [decl |-> "graphql_object", name |-> struct_name,
                 description |-> d.description,
                 fields |-> [k \in 1..Len(field_tokens) |->
                               gen_field(field_tokens[k], struct_name, trait_name)],
                 interfaces |-> [k \in 1..Len(d.implements_interfaces) |->
                                   Ident(d.implements_interfaces[k])]]>>)

\* gen_obj_type
gen_obj_type(d) ==
    IF HasDirectives(d) THEN Abort(<<>>, Panic(MsgDirectives))
    ELSE ObjDecls(d, Ident(d.name), trait_map_for_struct_name(Ident(d.name)),
                  FieldsData(d.fields))

\* gen_interface and gen_union: the enum of the implementors
EnumOfImplementors(name, implementors) ==
    [decl |-> "enum", name |-> name,
     variants |-> [k \in 1..Len(implementors) |->
                     [variant |-> implementors[k], payload |-> implementors[k]]]]

\* gen_interface and gen_union: the From implementation of one implementor
FromImpl(name, variant) == [decl |-> "impl From", from |-> variant, for |-> name]

FromImpls(name, implementors) ==
    [k \in 1..Len(implementors) |-> FromImpl(name, implementors[k])]

InstanceResolvers(name, implementors) ==
    [k \in 1..Len(implementors) |-> [type |-> implementors[k], of |-> name]]

\* Output::interface_implementors().get(name)
Implementors(reg, name) == IF name \in DOMAIN reg THEN Some(reg[name]) ELSE None

\* gen_interface: the dispatch of one field over the implementors
InterfaceField(ft, implementors) ==
    [field |-> ft.name,
     doc_tokens |-> ft.description,
     args |-> to_field_args_list(ft.macro_args),
     type |-> ft.field_type,
     arms |-> [j \in 1..Len(implementors) |->
                 [variant |-> implementors[j],
                  body |-> gen_field_body(ft, "inner", implementors[j],
                                          trait_map_for_struct_name(implementors[j]))]]]

\* gen_interface after the enum and the From implementations, first, are
\* appended: the fields are collected, then graphql_interface! is appended
InterfaceDecls(d, interface_name, implementors, first, field_tokens) ==
    IF AnyPanic(field_tokens) THEN Abort(first, FirstPanic(field_tokens))
    ELSE Done(first \o
           <<[decl |-> "graphql_interface", name |-> interface_name,
              description_text |-> IF d.description.some THEN d.description.v ELSE <<>>,
              fields |-> [k \in 1..Len(field_tokens) |->
                            InterfaceField(field_tokens[k], implementors)],
              instance_resolvers |-> InstanceResolvers(interface_name, implementors)]>>)

\* gen_interface once the implementors are found
InterfaceOfImplementors(d, interface_name, implementors) ==
    InterfaceDecls(d, interface_name, implementors,
                   <<EnumOfImplementors(interface_name, implementors)>>
                       \o FromImpls(interface_name, implementors),
                   FieldsData(d.fields))

\* gen_interface once the registry is consulted
InterfaceOfLookup(d, found) ==
    IF ~found.some THEN Abort(<<>>, NoImplementors(d.name))
    ELSE InterfaceOfImplementors(d, Ident(d.name),
                                 [k \in 1..Len(found.v) |-> Ident(found.v[k])])

\* gen_interface
gen_interface(d, reg) ==
    IF HasDirectives(d) THEN Abort(<<>>, Panic(MsgDirectives))
    ELSE InterfaceOfLookup(d, Implementors(reg, d.name))

\* gen_union on the members, with a From implementation for the first
\* member only
UnionDeclsOneFrom(d, union_name, implementors) ==
    Done(<<EnumOfImplementors(union_name, implementors)>>
         \o FromImpls(union_name, SubSeq(implementors, 1, 1))
         \o <<[decl |-> "graphql_union", name |-> union_name,
               description_text |-> IF d.description.some THEN d.description.v ELSE <<>>,
               instance_resolvers |-> InstanceResolvers(union_name, implementors)]>>)

\* gen_union on the members
UnionDecls(d, union_name, implementors) ==
    Done(<<EnumOfImplementors(union_name, implementors)>>
         \o FromImpls(union_name, implementors)
         \o <<[decl |-> "graphql_union", name |-> union_name,
               description_text |-> IF d.description.some THEN d.description.v ELSE <<>>,
               instance_resolvers |-> InstanceResolvers(union_name, implementors)]>>)

\* gen_union
gen_union(d) ==
    IF HasDirectives(d) THEN Abort(<<>>, Panic(MsgDirectives))
    ELSE UnionDecls(d, Ident(d.name), [k \in 1..Len(d.types) |-> Ident(d.types[k])])

\* gen_def and gen_type_def: the generator of the kind of the definition
gen_def(d, reg) ==
    CASE d.def = "DirectiveDefinition" -> gen_unsupported("Directives")
      [] d.def = "TypeExtension"       -> gen_unsupported("Extensions")
      [] d.def = "SchemaDefinition"    -> gen_schema_def(d)
      [] d.def = "Enum"                -> gen_enum_type(d)
      [] d.def = "Object"              -> gen_obj_type(d)
      [] d.def = "Scalar"              -> gen_scalar_type(d)
      [] d.def = "InputObject"         -> gen_input_def(d)
      [] d.def = "Interface"           -> gen_interface(d, reg)
      [] d.def = "Union"               -> gen_union(d)

--------------------------------------------------------------------------
(* graphql_parser::schema::Definition                                      *)

DirectiveDefinition == [def |-> "DirectiveDefinition"]
TypeExtension == [def |-> "TypeExtension"]
SchemaDefinition(q, m, sub, dirs) ==
    [def |-> "SchemaDefinition", query |-> q, mutation |-> m, subscription |-> sub,
     directives |-> dirs]
EnumValue(n, dirs) == [name |-> n, description |-> None, directives |-> dirs]
EnumType(n, vals, dirs) ==
    [def |-> "Enum", name |-> n, values |-> vals, description |-> None, directives |-> dirs]
ObjectType(n, fs, ifaces, dirs) ==
    [def |-> "Object", name |-> n, fields |-> fs, implements_interfaces |-> ifaces,
     description |-> None, directives |-> dirs]
ScalarType(n, dirs) == [def |-> "Scalar", name |-> n, description |-> None, directives |-> dirs]
InputObjectType(n, fs, dirs) ==
    [def |-> "InputObject", name |-> n, fields |-> fs, description |-> None, directives |-> dirs]
InterfaceType(n, fs, dirs) ==
    [def |-> "Interface", name |-> n, fields |-> fs, description |-> None, directives |-> dirs]
UnionType(n, tys, dirs) ==
    [def |-> "Union", name |-> n, types |-> tys, description |-> None, directives |-> dirs]

--------------------------------------------------------------------------
(* The documents and registries the model draws from.                      *)

FieldId == Field("id", None, TNonNull(TNamed("ID")), <<>>, FALSE)
FieldAllPosts ==
    Field("allPosts", Some(Directive("ownership", "owned")),
          TNonNull(TList(TNonNull(TNamed("Post")))),
          <<InputValue("status", TNamed("Status"), Some(VEnum("PUBLISHED")), NoDescription, FALSE)>>,
          FALSE)
FieldNullDefault ==
    Field("posts", None, TNamed("Post"),
          <<InputValue("status", TNamed("Status"), Some(VNull), NoDescription, FALSE)>>,
          FALSE)

Definitions ==
    { DirectiveDefinition,
      TypeExtension,
      SchemaDefinition(Some("Query"), None, None, FALSE),
      SchemaDefinition(Some("Query"), Some("Mutation"), None, FALSE),
      SchemaDefinition(None, None, None, FALSE),
      SchemaDefinition(Some("Query"), None, Some("Subscription"), FALSE),
      EnumType("Status", <<EnumValue("PUBLISHED", FALSE), EnumValue("UNPUBLISHED", FALSE)>>, FALSE),
      EnumType("Unit", <<EnumValue("METER", FALSE), EnumValue("FOOT", TRUE)>>, FALSE),
      ObjectType("Query", <<FieldId, FieldAllPosts>>, <<>>, FALSE),
      ObjectType("User", <<FieldId>>, <<"Node">>, FALSE),
      ScalarType("Url", FALSE),
      ScalarType("Date", FALSE),
      InputObjectType("PostInput",
          <<InputValue("title", TNonNull(TNamed("String")), None, NoDescription, FALSE),
            InputValue("tags", TList(TNonNull(TNamed("String"))), None, NoDescription, FALSE)>>,
          FALSE),
      InterfaceType("Node", <<FieldId>>, FALSE),
      InterfaceType("Node", <<FieldId, FieldNullDefault>>, FALSE),
      UnionType("SearchResult", <<"User", "Post">>, FALSE),
      UnionType("SearchResult", <<"Post", "User", "Query">>, TRUE) }

\* Sequences of distinct names: an implementor set is ordered and deduplicated.
Registries ==
    { <<>> }
    \cup {[n \in {"Node"} |-> names] : names \in {<<>>, <<"User", "Post">>, <<"Post", "User">>}}

\* The registries a pass over d is run with: the registry is read by
\* gen_interface only, so a document without an interface gets the empty one.
RegistriesOf(d) ==
    IF \E k \in 1..Len(d) : d[k].def = "Interface" THEN Registries ELSE { <<>> }

--------------------------------------------------------------------------
(* gen_juniper_code: gen_enum_from_name, then gen_doc, which calls gen_def *)
(* on every definition in order.  A panic unwinds through gen_doc and      *)
(* gen_juniper_code: nothing runs after it and the caller gets nothing.    *)

Init ==
    /\ doc \in SeqsUpTo(MaxDefs, Definitions)
    /\ registry \in RegistriesOf(doc)
    /\ pc = "start"
    /\ pos = 1
    /\ out = <<>>
    /\ origin = <<>>
    /\ errors = <<>>
    /\ returned = None
    /\ value = VNull
    /\ quoted = Idle
    /\ desc = None
    /\ attrs = Idle
    /\ arg = Idle
    /\ fieldArg = Idle
    /\ field = Idle
    /\ fieldTokens = Idle

\* Output::extend
Extend(o, tokens) == o \o tokens

GenEnumFromName ==
    /\ pc = "start"
    /\ out' = Extend(out, <<TraitEnumFromGraphQlName>>)
    /\ origin' = origin \o <<0>>
    /\ pc' = "gen_doc"
    /\ UNCHANGED <<doc, registry, pos, errors, returned, unitVars>>

\* gen_def is at a definition of kind k
AtDef(k) == pc = "gen_doc" /\ pos <= Len(doc) /\ doc[pos].def = k

\* The effect of a generator that appended r.decls and ended with r.err.
Apply(r) ==
    /\ out' = Extend(out, r.decls)
    /\ origin' = origin \o [k \in 1..Len(r.decls) |-> pos]
    /\ IF r.err.some
       THEN /\ pc' = "panicked"
            /\ errors' = Append(errors, r.err.v)
            /\ pos' = pos
       ELSE /\ pos' = pos + 1
            /\ UNCHANGED <<pc, errors>>
    /\ UNCHANGED <<doc, registry, returned, unitVars>>

GenDirectiveDefinition == AtDef("DirectiveDefinition") /\ Apply(gen_def(doc[pos], registry))
GenTypeExtension == AtDef("TypeExtension") /\ Apply(gen_def(doc[pos], registry))
GenSchemaDef == AtDef("SchemaDefinition") /\ Apply(gen_def(doc[pos], registry))
GenEnumType == AtDef("Enum") /\ Apply(gen_def(doc[pos], registry))
GenObjType == AtDef("Object") /\ Apply(gen_def(doc[pos], registry))
GenScalarType == AtDef("Scalar") /\ Apply(gen_def(doc[pos], registry))
GenInputDef == AtDef("InputObject") /\ Apply(gen_def(doc[pos], registry))
GenInterface == AtDef("Interface") /\ Apply(gen_def(doc[pos], registry))
GenUnion == AtDef("Union") /\ Apply(gen_def(doc[pos], registry))

\* gen_doc is past the last definition: gen_juniper_code returns
Return ==
    /\ pc = "gen_doc"
    /\ pos > Len(doc)
    /\ pc' = "done"
    /\ returned' = Some(out)
    /\ UNCHANGED <<doc, registry, pos, out, origin, errors, unitVars>>

Next ==
    \/ GenEnumFromName
    \/ GenDirectiveDefinition
    \/ GenTypeExtension
    \/ GenSchemaDef
    \/ GenEnumType
    \/ GenObjType
    \/ GenScalarType
    \/ GenInputDef
    \/ GenInterface
    \/ GenUnion
    \/ Return

Spec == Init /\ [][Next]_vars

--------------------------------------------------------------------------
(* gen_juniper_code on a document of one schema definition.                *)

SchemaDefs ==
    {SchemaDefinition(q, m, sub, dirs) :
        q \in {None, Some("Query"), Some("Root"), Some("QueryRoot")},
        m \in {None, Some("Mutation"), Some("Root"), Some("Query")},
        sub \in {None, Some("Subscription"), Some("Root")},
        dirs \in BOOLEAN}

InitSchema ==
    /\ doc \in {<<d>> : d \in SchemaDefs}
    /\ registry = <<>>
    /\ pc = "start"
    /\ pos = 1
    /\ out = <<>>
    /\ origin = <<>>
    /\ errors = <<>>
    /\ returned = None
    /\ value = VNull
    /\ quoted = Idle
    /\ desc = None
    /\ attrs = Idle
    /\ arg = Idle
    /\ fieldArg = Idle
    /\ field = Idle
    /\ fieldTokens = Idle

NextSchema ==
    \/ GenEnumFromName
    \/ GenSchemaDef
    \/ Return

SpecSchema == InitSchema /\ [][NextSchema]_vars

--------------------------------------------------------------------------
(* gen_juniper_code on a document of scalar definitions.                   *)

\* The definitions of a document of scalars are at most this many
MaxScalarDefs == 2

ScalarNames ==
    {"Int", "Float", "String", "Boolean", "ID", "Date", "DateTime", "Url", "Email"}

ScalarDefs == {ScalarType(n, dirs) : n \in ScalarNames, dirs \in BOOLEAN}

InitScalar ==
    /\ doc \in SeqsUpTo(MaxScalarDefs, ScalarDefs) \ { <<>> }
    /\ registry = <<>>
    /\ pc = "start"
    /\ pos = 1
    /\ out = <<>>
    /\ origin = <<>>
    /\ errors = <<>>
    /\ returned = None
    /\ value = VNull
    /\ quoted = Idle
    /\ desc = None
    /\ attrs = Idle
    /\ arg = Idle
    /\ fieldArg = Idle
    /\ field = Idle
    /\ fieldTokens = Idle

NextScalar ==
    \/ GenEnumFromName
    \/ GenScalarType
    \/ Return

SpecScalar == InitScalar /\ [][NextScalar]_vars

--------------------------------------------------------------------------
(* gen_juniper_code on a document of one object type or one interface of   *)
(* one field, or of one input object.                                      *)

TypedFieldTypes ==
    {TNonNull(TList(TNonNull(TNamed("Post")))), TNamed("Post"), TList(TNamed("Url")),
     TNamed("String"), TNonNull(TNamed("ID")), TNonNull(TList(TNamed("Status")))}

TypedFieldArgs ==
    {InputValue("status", TNamed("Status"), Some(VEnum("PUBLISHED")), NoDescription, FALSE),
     InputValue("firstN", TList(TNonNull(TNamed("Int"))), None, NoDescription, FALSE),
     InputValue("filter", TNonNull(TNamed("PostFilter")), None, NoDescription, FALSE),
     InputValue("after", TNonNull(TNamed("ID")), Some(VString("0")), NoDescription, FALSE),
     InputValue("tags", TList(TNamed("String")), Some(VList(<<VString("a")>>)),
                NoDescription, FALSE)}

TypedFields ==
    {Field("allPosts", dsc, ty, args, dirs) :
        dsc \in {None, Some(Directive("ownership", "owned"))},
        ty \in TypedFieldTypes,
        args \in SeqsUpTo(MaxArgs, TypedFieldArgs),
        dirs \in BOOLEAN}

FieldDefs ==
    {ObjectType("Query", <<f>>, <<>>, FALSE) : f \in TypedFields}
    \cup {InterfaceType("Node", <<f>>, FALSE) : f \in TypedFields}
    \cup {InputObjectType("PostInput", fs, FALSE) : fs \in SeqsUpTo(MaxArgs, TypedFieldArgs)}

InitFields ==
    /\ doc \in {<<d>> : d \in FieldDefs}
    /\ registry = [n \in {"Node"} |-> <<"User", "Post">>]
    /\ pc = "start"
    /\ pos = 1
    /\ out = <<>>
    /\ origin = <<>>
    /\ errors = <<>>
    /\ returned = None
    /\ value = VNull
    /\ quoted = Idle
    /\ desc = None
    /\ attrs = Idle
    /\ arg = Idle
    /\ fieldArg = Idle
    /\ field = Idle
    /\ fieldTokens = Idle

NextFields ==
    \/ GenEnumFromName
    \/ GenObjType
    \/ GenInterface
    \/ GenInputDef
    \/ Return

SpecFields == InitFields /\ [][NextFields]_vars

--------------------------------------------------------------------------
(* Properties.                                                             *)

\* std::i32::MIN as i64 = -2^31
I32_MIN_I64 == I64(-32768, 0)

InI32Range(i) == ~I64Gt(i, I32_MAX) /\ ~I64Gt(I32_MIN_I64, i)

\* C1: an integer default value in [-2^31, 2^31 - 1] compiles to the literal
\* of exactly that value, and an integer outside that range, above or
\* below, is a fatal error.
C1_IntLiteralInRangeOrFatal ==
    (value.kind = "Int" /\ quoted # Pending) =>
        IF InI32Range(value.i)
        THEN quoted.tok = "i32" /\ quoted.n = value.i.hi * (2^16) + value.i.lo
        ELSE IsPanic(quoted)

\* The directive a whole line is, whitespace around it allowed; None when
\* the line is anything else.
DirectiveOf(line) ==
    LET ms == {k \in 1..Len(line) :
                 /\ MatchAt(line, k)
                 /\ \A j \in 1..Len(line) : (j < k \/ j > k + 6) => line[j] = " "}
    IN  IF ms = {} THEN None
        ELSE Some([key |-> line[Min(ms) + 2], value |-> line[Min(ms) + 4]])

DescLines == IF desc.some THEN Lines(desc.v) ELSE <<>>

\* the lines the pattern matches
MatchingLines == {k \in 1..Len(DescLines) : Captures(DescLines[k]).some}

SupportedDirective(c) == c.key = "ownership" /\ c.value \in {"borrowed", "owned"}

\* C5 as stated: Owned whenever some line is #[ownership(owned)], whatever
\* the other lines are; Borrowed when no line matches the pattern.
C5_OwnedOnAnyLine ==
    attrs # Pending =>
        /\ (\E k \in 1..Len(DescLines) :
                DirectiveOf(DescLines[k]) = Some([key |-> "ownership", value |-> "owned"]))
              => (~IsPanic(attrs) /\ ownership(attrs) = "Owned")
        /\ MatchingLines = {} => (~IsPanic(attrs) /\ ownership(attrs) = "Borrowed")

\* C5 amended: Owned whenever the first line the pattern matches holds
\* #[ownership(owned)] and no line holds a directive with an unsupported key
\* or value; Borrowed when no line matches the pattern or the field has no
\* description.
C5_FirstDirectiveDecides ==
    attrs # Pending =>
        /\ MatchingLines = {} => (~IsPanic(attrs) /\ ownership(attrs) = "Borrowed")
        /\ ( /\ MatchingLines # {}
             /\ \A k \in MatchingLines : SupportedDirective(Captures(DescLines[k]).v)
             /\ Captures(DescLines[Min(MatchingLines)]).v.value = "owned" )
              => (~IsPanic(attrs) /\ ownership(attrs) = "Owned")

\* C5 witness: prose, then #[ownership(owned)], then #[ownership(borrowed)]
\* parsed to Owned.
C5_Witness ==
    /\ attrs # Pending
    /\ ~IsPanic(attrs)
    /\ Len(DescLines) = 3
    /\ DescLines[1] = <<"Comment">>
    /\ DirectiveOf(DescLines[2]) = Some([key |-> "ownership", value |-> "owned"])
    /\ DirectiveOf(DescLines[3]) = Some([key |-> "ownership", value |-> "borrowed"])
    /\ ownership(attrs) = "Owned"

\* the lines that are a directive, and those among them that are unsupported
DirectiveLines == {k \in 1..Len(DescLines) : DirectiveOf(DescLines[k]).some}
UnsupportedLines == {k \in DirectiveLines : ~SupportedDirective(DirectiveOf(DescLines[k]).v)}

\* C6: a line that is a directive with an unsupported key or value is a
\* fatal error; a line that is not a directive never causes an error and
\* contributes no attribute.
C6_OnlyDirectiveLinesCount ==
    attrs # Pending =>
        IF UnsupportedLines # {}
        THEN IsPanic(attrs)
        ELSE ~IsPanic(attrs) /\ Len(attrs.list) = Cardinality(DirectiveLines)

RECURSIVE HasUnsupported(_)
HasUnsupported(v) ==
    \/ v.kind \in {"Null", "Object", "Variable"}
    \/ v.kind = "List" /\ \E k \in 1..Len(v.items) : HasUnsupported(v.items[k])

\* C7: an argument whose default value is null, an object or a variable, or
\* a list holding one at any depth, is a fatal error whatever the type of
\* the argument; a null default fails with the message about null.
C7_UnsupportedDefaultIsFatal ==
    (fieldArg # Pending /\ arg.default_value.some) =>
        /\ HasUnsupported(arg.default_value.v) => IsPanic(fieldArg)
        /\ (arg.default_value.v = VNull /\ ~arg.directives) => fieldArg = Panic(MsgNull)

\* C7 witness: a null nested in a list default of a nullable list argument
\* was refused.
C7_Witness ==
    /\ IsPanic(fieldArg)
    /\ ~arg.directives
    /\ arg.value_type = TList(TNamed("Int"))
    /\ arg.default_value = Some(VList(<<VInt(0, 1), VList(<<VNull>>)>>))

\* the elements of a list default all compile
RECURSIVE Compiles(_)
Compiles(v) ==
    CASE v.kind = "Int" -> InI32Range(v.i)
      [] v.kind = "List" -> \A k \in 1..Len(v.items) : Compiles(v.items[k])
      [] OTHER -> ~HasUnsupported(v)

\* C8: a list default whose elements compile becomes a block that creates an
\* empty vector, pushes the compiled elements one by one in the order of the
\* list, and ends with the vector; [1, 2, 3] pushes 1, then 2, then 3.
C8_ListPushesInOrder ==
    (value.kind = "List" /\ quoted # Pending /\ Compiles(value)) =>
        LET n == Len(value.items)
        IN  /\ quoted.tok = "block"
            /\ Len(quoted.stmts) = n + 2
            /\ quoted.stmts[1] = StmtNew
            /\ quoted.stmts[n + 2] = StmtVec
            /\ \A k \in 1..n : quoted.stmts[k + 1] = StmtPush(QuoteValue(value.items[k]))
            /\ value = VList(<<VInt(0, 1), VInt(0, 2), VInt(0, 3)>>) =>
                    quoted.stmts = <<StmtNew,
                                     StmtPush([tok |-> "i32", n |-> 1]),
                                     StmtPush([tok |-> "i32", n |-> 2]),
                                     StmtPush([tok |-> "i32", n |-> 3]),
                                     StmtVec>>

\* C8 witness: [1, [1], 3] compiled to a block of three pushes, the second
\* one of a nested block.
C8_Witness ==
    /\ value = VList(<<VInt(0, 1), VList(<<VInt(0, 1)>>), VInt(0, 3)>>)
    /\ quoted.tok = "block"
    /\ Len(quoted.stmts) = 5
    /\ quoted.stmts[3].arg.tok = "block"

\* C4: an argument with a default value has, at the dispatch site, the
\* optional type Option<T> of its declared type and, in the contract, the
\* type T with that one layer removed, and is passed as
\* name.unwrap_or_else(|| default) with the compiled default; an argument
\* without a default has the same type in both and is passed as it is.
C4_DefaultResolvedAtDispatch ==
    (fieldTokens # Pending /\ ~IsPanic(fieldTokens)) =>
        /\ Len(fieldTokens.trait_args) = Len(field.arguments)
        /\ Len(fieldTokens.macro_args) = Len(field.arguments)
        /\ Len(fieldTokens.params) = Len(field.arguments)
        /\ \A k \in 1..Len(field.arguments) :
              LET a == field.arguments[k]
                  macro == fieldTokens.macro_args[k]
                  trait == fieldTokens.trait_args[k]
                  param == fieldTokens.params[k]
              IN  /\ macro.name = to_snake_case(a.name)
                  /\ trait.name = to_snake_case(a.name)
                  /\ IF a.default_value.some
                     THEN /\ macro.type = [ty |-> "Option", of |-> trait.type]
                          /\ param = [param |-> "unwrap_or_else",
                                      name |-> to_snake_case(a.name),
                                      default |-> QuoteValue(a.default_value.v)]
                     ELSE /\ macro.type = trait.type
                          /\ param = [param |-> "name", name |-> to_snake_case(a.name)]
                  /\ a = InputValue("status", TNamed("Status"), Some(VEnum("PUBLISHED")),
                                    NoDescription, FALSE)
                       => /\ trait.type = Path("Status")
                          /\ macro.type = [ty |-> "Option", of |-> Path("Status")]
                          /\ param.default =
                                [tok |-> "EnumFromGraphQlName::from_name", s |-> "PUBLISHED"]

\* C4 witness: allPosts(status: Status = PUBLISHED, firstN: [Int!]) compiled.
C4_Witness ==
    /\ fieldTokens # Pending
    /\ ~IsPanic(fieldTokens)
    /\ field.arguments =
          <<InputValue("status", TNamed("Status"), Some(VEnum("PUBLISHED")), NoDescription, FALSE),
            InputValue("firstN", TList(TNonNull(TNamed("Int"))), None, NoDescription, FALSE)>>
    /\ fieldTokens.trait_args[1].type = Path("Status")
    /\ fieldTokens.params[1].param = "unwrap_or_else"
    /\ fieldTokens.params[2].param = "name"


--------------------------------------------------------------------------
(* The pass: what the definitions of the document left in the Output.      *)

\* gen_def has run on definition k, to its end or to a panic
HasRun(k) == k < pos \/ (k = pos /\ pc = "panicked")

\* The token streams of the Output that definition k appended, in order
RECURSIVE DeclsFrom(_, _)
DeclsFrom(k, j) ==
    IF j > Len(out) THEN <<>>
    ELSE (IF origin[j] = k THEN <<out[j]>> ELSE <<>>) \o DeclsFrom(k, j + 1)

DeclsOf(k) == DeclsFrom(k, 1)

\* The names registered as the implementors of definition k: the entry of
\* the registry for an interface, the members for a union
ImplementorNames(k) ==
    IF doc[k].def = "Union" THEN doc[k].types
    ELSE IF doc[k].name \in DOMAIN registry THEN registry[doc[k].name]
    ELSE <<>>

Distinct(q) == \A i, j \in 1..Len(q) : q[i] = q[j] => i = j

\* C2: an interface definition whose implementor set is empty, because the
\* registry has no entry for its name or has an entry of zero names, is never
\* compiled past: the pass stops at it with a panic and nothing in the Output
\* comes from it.
C2_EmptyImplementorsIsFatal ==
    \A k \in 1..Len(doc) :
        (doc[k].def = "Interface" /\ ImplementorNames(k) = <<>>)
        => /\ pos <= k
           /\ pc # "done"
           /\ DeclsOf(k) = <<>>
           /\ (pc = "panicked" /\ pos = k /\ ~HasDirectives(doc[k])
                   => errors = <<NoImplementors(doc[k].name)>>)

\* C3: an interface or a union with implementors n1 .. nN, once compiled,
\* has left in the Output first the enum of its name with the variants
\* n1(n1) .. nN(nN) in this order, then the From implementations of n1 .. nN
\* in this order, and no other enum or From implementation; when the
\* implementors are distinct no variant and no From implementation is there
\* twice.
C3_OneVariantAndFromPerImplementor ==
    \A k \in 1..Len(doc) :
        (/\ HasRun(k)
         /\ doc[k].def \in {"Interface", "Union"}
         /\ ~HasDirectives(doc[k])
         /\ ImplementorNames(k) # <<>>)
        => LET ds == DeclsOf(k)
               names == ImplementorNames(k)
               n == Len(names)
           IN  /\ Len(ds) >= n + 1
               /\ ds[1].decl = "enum"
               /\ ds[1].name = Ident(doc[k].name)
               /\ Len(ds[1].variants) = n
               /\ \A j \in 1..n :
                     /\ ds[1].variants[j].variant = Ident(names[j])
                     /\ ds[1].variants[j].payload = Ident(names[j])
                     /\ ds[1 + j].decl = "impl From"
                     /\ ds[1 + j].from = Ident(names[j])
                     /\ ds[1 + j].for = Ident(doc[k].name)
               /\ \A j \in (n + 2)..Len(ds) : ds[j].decl \notin {"enum", "impl From"}
               /\ Distinct(names)
                     => /\ Distinct(ds[1].variants)
                        /\ Distinct(SubSeq(ds, 2, n + 1))

\* An interface of two implementors and a union of two members compiled in
\* one pass that returned.
C3_Witness ==
    /\ pc = "done"
    /\ \E k \in 1..Len(doc) :
          /\ doc[k].def = "Interface"
          /\ Len(ImplementorNames(k)) = 2
          /\ Len(DeclsOf(k)) = 4
    /\ \E k \in 1..Len(doc) :
          /\ doc[k].def = "Union"
          /\ Len(ImplementorNames(k)) = 2
          /\ Len(DeclsOf(k)) = 4

\* Whether definition k is fatal: a directive definition and a type
\* extension always, any other when its generator panics
Fatal(k) ==
    \/ doc[k].def \in {"DirectiveDefinition", "TypeExtension"}
    \/ gen_def(doc[k], registry).err.some

\* C9: when definition k of the document is fatal the pass never goes past
\* it: no later definition is reached, nothing in the Output comes from a
\* later definition, at most one panic is ever raised, the pass does not
\* return and its caller gets no output; and a pass that panicked did so at
\* the first fatal definition, with the panic of that definition.
C9_AbortAtFirstFatal ==
    /\ \A k \in 1..Len(doc) :
          Fatal(k) => /\ pos <= k
                      /\ \A j \in 1..Len(origin) : origin[j] <= k
                      /\ Len(errors) <= 1
                      /\ pc # "done"
                      /\ returned = None
    /\ errors # <<>> => /\ pc = "panicked"
                        /\ Len(errors) = 1
                        /\ returned = None
                        /\ pos \in 1..Len(doc)
                        /\ Fatal(pos)
                        /\ \A k \in 1..(pos - 1) : ~Fatal(k)
    /\ pc = "panicked" => errors # <<>>

\* A pass that panicked at a type extension in the second place, after the
\* first definition had appended to the Output and with a third definition
\* left.
C9_Witness ==
    /\ pc = "panicked"
    /\ Len(doc) = 3
    /\ pos = 2
    /\ doc[2].def = "TypeExtension"
    /\ DeclsOf(1) # <<>>
    /\ returned = None
    /\ errors = <<NotSupported("Extensions")>>

\* C10, in every state: once gen_enum_from_name has run the Output starts
\* with the trait EnumFromGraphQlName, which is nowhere else in it; the token
\* streams of the definitions follow in the order of the definitions; and
\* what a definition that has run left in it is what its generator appended;
\* and the enum of a compiled enum type holds the variants of its values in
\* the order of the values.
C10_InOrder ==
    /\ pc = "start" => out = <<>>
    /\ pc # "start"
          => /\ Len(out) >= 1 /\ Len(origin) = Len(out)
             /\ out[1] = TraitEnumFromGraphQlName
             /\ origin[1] = 0
             /\ \A j \in 2..Len(out) :
                   /\ out[j] # TraitEnumFromGraphQlName
                   /\ origin[j] \in 1..Len(doc)
                   /\ origin[j - 1] <= origin[j]
    /\ \A k \in 1..Len(doc) :
          IF HasRun(k) THEN DeclsOf(k) = gen_def(doc[k], registry).decls
          ELSE DeclsOf(k) = <<>>
    /\ \A k \in 1..Len(doc) :
          (HasRun(k) /\ doc[k].def = "Enum" /\ DeclsOf(k) # <<>>)
          => /\ Len(DeclsOf(k)[1].values) = Len(doc[k].values)
             /\ \A j \in 1..Len(doc[k].values) :
                   DeclsOf(k)[1].values[j].graphql_name = doc[k].values[j].name

\* C10, in every step: the Output after the step starts with the Output
\* before it.
C10_Appends ==
    /\ Len(out') >= Len(out)
    /\ SubSeq(out', 1, Len(out)) = out

\* C10: the Output is append-only and in the order of the document.
C10_AppendOnlyInOrder == [](C10_InOrder) /\ [][C10_Appends]_vars

\* A pass that returned after three definitions that each appended, one of
\* them an enum type of two values.
C10_Witness ==
    /\ pc = "done"
    /\ Len(doc) = 3
    /\ \A k \in 1..3 : DeclsOf(k) # <<>>
    /\ \E k \in 1..3 : doc[k].def = "Enum" /\ Len(DeclsOf(k)[1].values) = 2
    /\ doc[1] # doc[2]

--------------------------------------------------------------------------
(* The schema definition.                                                  *)

EmptyMutation == Ident("juniper::EmptyMutation<Context>")

\* The token streams of kind "type Schema" among ds
SchemaDecls(ds) == {j \in 1..Len(ds) : ds[j].decl = "type Schema"}

\* C11: once gen_def has run on a schema definition, with a subscription
\* root the pass has panicked with the not-supported panic of subscriptions
\* and the definition appended nothing; otherwise without a query root the
\* pass has panicked and the definition appended nothing, the panic being
\* the one of the missing query when the definition has no directives;
\* otherwise, the definition having no directives, the pass went past it
\* and the definition appended exactly one token stream, the Schema type of
\* the declared query root and of the declared mutation root, or of
\* juniper::EmptyMutation<Context> when no mutation root is declared.
C11_SchemaRoot ==
    \A k \in 1..Len(doc) :
        (HasRun(k) /\ doc[k].def = "SchemaDefinition")
        => IF doc[k].subscription.some
           THEN /\ pc = "panicked" /\ pos = k
                /\ errors = <<NotSupported("Subscriptions")>>
                /\ DeclsOf(k) = <<>>
           ELSE IF ~doc[k].query.some
           THEN /\ pc = "panicked" /\ pos = k
                /\ Len(errors) = 1
                /\ ~HasDirectives(doc[k]) => errors = <<Panic(MsgNoQuery)>>
                /\ DeclsOf(k) = <<>>
           ELSE ~HasDirectives(doc[k])
                => /\ pos > k
                   /\ Len(DeclsOf(k)) = 1
                   /\ SchemaDecls(DeclsOf(k)) = {1}
                   /\ DeclsOf(k)[1].query = Ident(doc[k].query.v)
                   /\ DeclsOf(k)[1].mutation =
                         (IF doc[k].mutation.some THEN Ident(doc[k].mutation.v)
                          ELSE EmptyMutation)

\* A pass that returned the Schema type of a query root and of the
\* placeholder, the definition having declared no mutation root.
C11_Witness ==
    /\ pc = "done"
    /\ doc[1].def = "SchemaDefinition"
    /\ doc[1].query = Some("QueryRoot")
    /\ ~doc[1].mutation.some
    /\ out[2] = [decl |-> "type Schema", query |-> Ident("QueryRoot"),
                  mutation |-> EmptyMutation]

--------------------------------------------------------------------------
(* The scalar definition.                                                  *)

BuiltInScalars == {"Int", "Float", "String", "Boolean", "ID"}
ReservedScalars == {"Date", "DateTime"}

\* C12: once gen_def has run on a scalar definition without directives the
\* pass went past it; a scalar of a built-in name (Int, Float, String,
\* Boolean, ID) or of a reserved name (Date, DateTime) appended nothing, and
\* a scalar of any other name appended exactly one token stream, the wrapper
\* of its name over a String with its constructor and its conversions.
C12_OnlyCustomScalarsDeclared ==
    \A k \in 1..Len(doc) :
        (HasRun(k) /\ doc[k].def = "Scalar" /\ ~HasDirectives(doc[k]))
        => /\ pos > k
           /\ IF doc[k].name \in BuiltInScalars \cup ReservedScalars
              THEN DeclsOf(k) = <<>>
              ELSE /\ Len(DeclsOf(k)) = 1
                   /\ DeclsOf(k)[1].decl = "scalar"
                   /\ DeclsOf(k)[1].name = Ident(doc[k].name)
                   /\ DeclsOf(k)[1].payload = "String"
                   /\ DeclsOf(k)[1].constructor = "new"
                   /\ DeclsOf(k)[1].conversions = <<"resolve", "from_input_value", "from_str">>

--------------------------------------------------------------------------
(* The trail of a field.                                                   *)

\* The innermost named type of a schema type, below its lists and non-nulls
RECURSIVE InnermostName(_)
InnermostName(ty) == IF ty.t = "NamedType" THEN ty.name ELSE InnermostName(ty.of)

\* The TypeKind a field of type ty resolves to
KindOf(ty) == graphql_scalar_type_to_rust_type(InnermostName(ty)).kind

\* How many parameters come before the values of the arguments
Leading(ty) == IF KindOf(ty) = "Type" THEN 3 ELSE 2

IsTrail(x) == "p" \in DOMAIN x /\ x.p \in {"trail", "&trail"}

\* The trait method m declares for field f the executor, a trail of the
\* innermost type when and only when the kind of f is Type, then one
\* parameter per argument of f in the order of f
DeclaresFor(m, f) ==
    /\ Len(m.params) = Leading(f.field_type) + Len(f.arguments)
    /\ m.params[1] = SelfParam
    /\ m.params[2] = ExecutorParam
    /\ KindOf(f.field_type) = "Type"
          => m.params[3] = TrailParam(Ident(to_camel_case(InnermostName(f.field_type))))
    /\ \A j \in 1..Len(f.arguments) :
          /\ ~IsTrail(m.params[Leading(f.field_type) + j])
          /\ m.params[Leading(f.field_type) + j].name = to_snake_case(f.arguments[j].name)

\* The body b of field f, called on self_tokens, makes a trail of the
\* innermost type and passes it after the executor when and only when the
\* kind of f is Type, then passes one value per argument of f in the order
\* of f
PassesFor(b, f, self_tokens) ==
    /\ Len(b.args) = Leading(f.field_type) + Len(f.arguments)
    /\ b.args[1] = [p |-> self_tokens]
    /\ b.args[2] = [p |-> "&executor"]
    /\ b.method = FieldMethod(f.name)
    /\ IF KindOf(f.field_type) = "Type"
       THEN /\ b.make_query_trail = Some(Ident(to_camel_case(InnermostName(f.field_type))))
            /\ b.args[3] = [p |-> "&trail"]
       ELSE b.make_query_trail = None
    /\ \A j \in 1..Len(f.arguments) :
          /\ ~IsTrail(b.args[Leading(f.field_type) + j])
          /\ b.args[Leading(f.field_type) + j].name = to_snake_case(f.arguments[j].name)

\* C13: for every field of a compiled object type the trait method
\* declares, and the body of the field passes, the executor, a trail when
\* and only when the kind of the innermost named type of the field is Type,
\* and one value per argument in schema order, so that the call has as many
\* parameters as the method, the same trail and the same argument names; for
\* every field of a compiled interface the body of every arm passes the same
\* to the method of the field.
C13_TrailIffTypeKind ==
    \A k \in 1..Len(doc) :
        (pos > k /\ doc[k].def \in {"Object", "Interface"})
        => \A i \in 1..Len(doc[k].fields) :
             IF doc[k].def = "Object"
             THEN /\ DeclsOf(k)[1].decl = "trait"
                  /\ DeclsOf(k)[2].decl = "graphql_object"
                  /\ DeclsOf(k)[1].methods[i].method = FieldMethod(doc[k].fields[i].name)
                  /\ DeclaresFor(DeclsOf(k)[1].methods[i], doc[k].fields[i])
                  /\ PassesFor(DeclsOf(k)[2].fields[i].body, doc[k].fields[i], "&self")
                  /\ Len(DeclsOf(k)[2].fields[i].body.args)
                        = Len(DeclsOf(k)[1].methods[i].params)
                  /\ DeclsOf(k)[2].fields[i].body.trait = DeclsOf(k)[1].name
             ELSE /\ DeclsOf(k)[Len(DeclsOf(k))].decl = "graphql_interface"
                  /\ Len(DeclsOf(k)[Len(DeclsOf(k))].fields[i].arms)
                        = Len(ImplementorNames(k))
                  /\ \A j \in 1..Len(ImplementorNames(k)) :
                        PassesFor(DeclsOf(k)[Len(DeclsOf(k))].fields[i].arms[j].body,
                                  doc[k].fields[i], "inner")

\* A pass that returned after an object type whose field is a non-null list
\* of a type, with two arguments: the method declares and the body passes
\* five parameters, the third the trail.
C13_Witness ==
    /\ pc = "done"
    /\ doc[1].def = "Object"
    /\ doc[1].fields[1].field_type = TNonNull(TList(TNonNull(TNamed("Post"))))
    /\ Len(doc[1].fields[1].arguments) = 2
    /\ Len(DeclsOf(1)[1].methods[1].params) = 5
    /\ IsTrail(DeclsOf(1)[1].methods[1].params[3])
    /\ IsTrail(DeclsOf(1)[2].fields[1].body.args[3])

--------------------------------------------------------------------------
(* The type of an argument with a default.                                 *)

\* The Rust type of a schema type: Option<..> unless the type is marked
\* non-null, Vec<..> of the type of the items for a list
RECURSIVE RustType(_)
RECURSIVE RustTypeNonNull(_)
RustTypeNonNull(ty) ==
    CASE ty.t = "NamedType"   -> graphql_scalar_type_to_rust_type(ty.name).tokens
      [] ty.t = "ListType"    -> [ty |-> "Vec", of |-> RustType(ty.of)]
      [] ty.t = "NonNullType" -> RustTypeNonNull(ty.of)

RustType(ty) ==
    IF ty.t = "NonNullType" THEN RustTypeNonNull(ty.of)
    ELSE [ty |-> "Option", of |-> RustTypeNonNull(ty)]

\* The arguments of the one field of an object type or an interface, the
\* fields of an input object
InputValuesOf(d) == IF d.def = "InputObject" THEN d.fields ELSE d.fields[1].arguments

NoDirectivesIn(d) ==
    /\ ~HasDirectives(d)
    /\ d.def # "InputObject" => ~HasDirectives(d.fields[1])
    /\ \A j \in 1..Len(InputValuesOf(d)) : ~HasDirectives(InputValuesOf(d)[j])

DefaultOnNonNull(a) == a.default_value.some /\ a.value_type.t = "NonNullType"

\* The type the contract takes for input value a: that of a with its
\* top-level Option removed when a has a default
ContractType(a) ==
    IF a.default_value.some THEN RustTypeNonNull(a.value_type) ELSE RustType(a.value_type)

\* C14: once gen_def has run on an object type or an interface of one
\* field, the interface having implementors, or on an input object, all
\* without directives and with defaults that compile: when some argument or input field with a default has a
\* non-null type the pass has panicked at the definition with 'Fields with
\* default arguments values must be nullable' and the definition appended no
\* trait, object, interface or struct; otherwise the pass went past it, the
\* dispatch type of every argument and the type of every input field is the
\* type as declared, and the contract type of an argument with a default is
\* the declared type without its top-level Option, the types inside it
\* unchanged, that of an argument without default the declared type.
C14_DefaultNeedsNullable ==
    \A k \in 1..Len(doc) :
        (/\ HasRun(k)
         /\ doc[k].def \in {"Object", "Interface", "InputObject"}
         /\ doc[k].def # "InputObject" => Len(doc[k].fields) = 1
         /\ doc[k].def = "Interface" => doc[k].name \in DOMAIN registry
         /\ NoDirectivesIn(doc[k])
         /\ \A j \in 1..Len(InputValuesOf(doc[k])) :
               InputValuesOf(doc[k])[j].default_value.some
               => ~IsPanic(QuoteValue(InputValuesOf(doc[k])[j].default_value.v)))
        => IF \E j \in 1..Len(InputValuesOf(doc[k])) : DefaultOnNonNull(InputValuesOf(doc[k])[j])
           THEN /\ pc = "panicked"
                /\ pos = k
                /\ errors = <<Panic(MsgMustBeNullable)>>
                /\ \A j \in 1..Len(DeclsOf(k)) :
                      DeclsOf(k)[j].decl \notin
                          {"trait", "graphql_object", "graphql_interface", "struct"}
           ELSE /\ pos > k
                /\ \A j \in 1..Len(InputValuesOf(doc[k])) :
                      CASE doc[k].def = "InputObject" ->
                             DeclsOf(k)[1].fields[j].type = RustType(InputValuesOf(doc[k])[j].value_type)
                        [] doc[k].def = "Interface" ->
                             DeclsOf(k)[Len(DeclsOf(k))].fields[1].args[1 + j].type
                                 = RustType(InputValuesOf(doc[k])[j].value_type)
                        [] doc[k].def = "Object" ->
                             /\ DeclsOf(k)[2].fields[1].args[1 + j].type
                                   = RustType(InputValuesOf(doc[k])[j].value_type)
                             /\ DeclsOf(k)[1].methods[1]
                                     .params[Leading(doc[k].fields[1].field_type) + j].type
                                   = ContractType(InputValuesOf(doc[k])[j])

\* A pass that panicked at an input object whose first field is a nullable
\* list with a default and whose second field is a non-null ID with the
\* default "0", a literal that compiles.
C14_Witness ==
    /\ pc = "panicked"
    /\ doc[1].def = "InputObject"
    /\ Len(doc[1].fields) = 2
    /\ doc[1].fields[1].value_type = TList(TNamed("String"))
    /\ doc[1].fields[1].default_value.some
    /\ DefaultOnNonNull(doc[1].fields[2])
    /\ ~IsPanic(QuoteValue(doc[1].fields[2].default_value.v))
    /\ errors = <<Panic(MsgMustBeNullable)>>
    /\ DeclsOf(1) = <<>>

====
